---- MODULE Spec2Model ----
(***************************************************************************)
(* The two plugin adapters of odyssey-store:                               *)
(*   - PaymongoPaymentService (src/src/services/paymongo.ts), the payment  *)
(*     processor that drives the Paymongo HTTP API;                        *)
(*   - SupabaseFIleService (src/unnamed/part_000), the file service that   *)
(*     proxies to a Supabase storage bucket.                               *)
(* Neither adapter keeps state of its own.  The state of the model is the  *)
(* last lifecycle call of the payment adapter (what it was given, which    *)
(* vendor requests it issued, which errors it built, how it completed) and *)
(* the storage bucket together with the last call of the file adapter.     *)
(* The vendor's HTTP answers, the cart read from the cart service and the  *)
(* UUIDs drawn by randomUUID() are inputs.  The cart service is taken to   *)
(* answer every retrieveWithTotals with a cart.                            *)
(*                                                                         *)
(* JavaScript values are records tagged by a field "kind", so that values  *)
(* of different shapes can be compared.  Currency codes are sequences of   *)
(* one-character strings, so that toLowerCase is computed, not assumed.    *)
(***************************************************************************)
EXTENDS Integers, Sequences, FiniteSets, TLC

VARIABLES
    op,           \* the payment-adapter method called last ("none" at start)
    input,        \* what that call was given: session data, and the cart
                  \* the cart service holds for its context
    requests,     \* the vendor requests the call issued, in order
    built,        \* the PaymentProcessorErrors buildError constructed in it
    outcome,      \* how the call completed: a returned value or a throw
    bucket,       \* the set of object paths stored in the storage bucket
    fileOp,       \* the file-adapter method called last ("none" at start)
    fileArg,      \* the object path that call was given (fileKey), if any
    fileOutcome   \* how that call completed

payVars  == <<op, input, requests, built, outcome>>
fileVars == <<bucket, fileOp, fileArg, fileOutcome>>
vars     == <<op, input, requests, built, outcome,
              bucket, fileOp, fileArg, fileOutcome>>

(***************************************************************************)
(* Bounds of the model.                                                    *)
(***************************************************************************)
MaxAmount == 2
MaxUUID == 2

Amounts == 1..MaxAmount

(***************************************************************************)
(* Strings that the code inspects character by character.                  *)
(***************************************************************************)
PHP_upper == <<"P", "H", "P">>
php_lower == <<"p", "h", "p">>
USD_upper == <<"U", "S", "D">>
usd_lower == <<"u", "s", "d">>

\* currency of a vendor payment intent: "case varies"
VendorCurrencies == {PHP_upper, php_lower, USD_upper}
\* region.currency_code of a cart: the platform stores it lower-cased
CartCurrencies == {php_lower, usd_lower}

toLowerCase_identity(s) == s

\* String.prototype.toLowerCase on the letters the model uses
toLowerCase(s) ==
    [i \in 1..Len(s) |->
        CASE s[i] = "P" -> "p"
          [] s[i] = "H" -> "h"
          [] s[i] = "U" -> "u"
          [] s[i] = "S" -> "s"
          [] s[i] = "D" -> "d"
          [] OTHER -> s[i]]

Digit(d) ==
    CASE d = 0 -> "0" [] d = 1 -> "1" [] d = 2 -> "2" [] d = 3 -> "3"
      [] d = 4 -> "4" [] d = 5 -> "5" [] d = 6 -> "6" [] d = 7 -> "7"
      [] d = 8 -> "8" [] d = 9 -> "9"

RECURSIVE String(_)
\* String(n) of a non-negative integer: its decimal digits
String(n) == IF n < 10 THEN Digit(n) ELSE String(n \div 10) \o Digit(n % 10)

(***************************************************************************)
(* The vendor (Paymongo) as seen through fetch().                          *)
(***************************************************************************)
IntentStatuses ==
    {"succeeded", "awaiting_next_action", "awaiting_payment_method",
     "processing", "failed", "cancelled"}

IntentIds == {"pi_1", "pi_2"}

\* HTTP status codes and their status texts
StatusText(code) ==
    CASE code = 200 -> "OK"
      [] code = 401 -> "Unauthorized"
      [] code = 500 -> "Internal Server Error"

\* bodies: JSON null, a vendor error document, text that is not JSON
NullBody    == [kind |-> "null"]
ErrorsBody  == [kind |-> "errors"]
InvalidBody == [kind |-> "invalid"]

IntentBody(id, amount, status, currency) ==
    [kind |-> "intent", id |-> id, amount |-> amount, status |-> status,
     currency |-> currency]

CheckoutBody(id, status) ==
    [kind |-> "checkout", checkout_url |-> <<"checkout", id>>,
     paymentIntentId |-> id, paymentStatus |-> status]

Response(ok, code, body) ==
    [ok |-> ok, status |-> code, statusText |-> StatusText(code), body |-> body]

\* a refusal by the vendor carries an error document; a failure of a gateway
\* in front of it carries text that is not JSON
FailedResponses ==
    {Response(FALSE, 401, ErrorsBody), Response(FALSE, 500, InvalidBody)}

\* answers to GET payment_intents/<id>
IntentResponses(id) ==
    {Response(TRUE, 200, IntentBody(id, a, s, c)) :
        a \in Amounts, s \in IntentStatuses, c \in VendorCurrencies}
    \cup {Response(TRUE, 200, NullBody)}
    \cup FailedResponses

\* answers to POST checkout_sessions
CheckoutResponses ==
    {Response(TRUE, 200, CheckoutBody(id, "awaiting_payment_method")) :
        id \in IntentIds}
    \cup FailedResponses

(***************************************************************************)
(* The platform: carts and stored payment-session data.                    *)
(***************************************************************************)
Carts == [total : Amounts, currencyCode : CartCurrencies]
NoCart == [kind |-> "none"]

SessionData(id) ==
    [checkout_url |-> <<"checkout", id>>, paymentIntentId |-> id,
     paymentStatus |-> "awaiting_payment_method"]
SessionDatas == {SessionData(id) : id \in IntentIds}
NoSession == [kind |-> "none"]

PaymentSessionStatus ==
    [AUTHORIZED |-> "authorized", PENDING |-> "pending", ERROR |-> "error"]

(***************************************************************************)
(* Completions of an async method.                                         *)
(***************************************************************************)
Undefined == [kind |-> "undefined"]
Return(v) == [kind |-> "return", value |-> v]
Throw(e)  == [kind |-> "throw", error |-> e]

\* an Error object; TypeError is what destructuring or reading a property of
\* null or undefined throws, SyntaxError what res.json() rejects with
Error(name, message) == [kind |-> "Error", name |-> name, message |-> message]
TypeError   == Error("TypeError", "cannot read properties of undefined")
SyntaxError == Error("SyntaxError", "unexpected token in JSON")

Run(reqs, errs, out) == [requests |-> reqs, built |-> errs, outcome |-> out]

Request(method, path, body, res) ==
    [method |-> method, path |-> path, body |-> body, response |-> res]

(***************************************************************************)
(* PaymongoPaymentService.                                                 *)
(***************************************************************************)
\* buildError: e is an Error (message, stack) or a plain {code, detail}
buildError(message, e) ==
    [error  |-> "Paymongo error: " \o message,
     code   |-> IF e.kind = "Error" THEN e.message ELSE e.code,
     detail |-> IF e.kind = "Error" THEN e.stack ELSE e.detail]

\* fetchPaymongo: on !res.ok the error is built and dropped (its value is
\* neither returned nor thrown), and res.json() is awaited in every case;
\* res.json() rejects with a SyntaxError on a body that is not JSON.
fetchPaymongo(res) ==
    [built |->
        IF ~res.ok
        THEN <<buildError("Unable to fetch from paymongo",
                          [kind |-> "object", code |-> String(res.status),
                           detail |-> res.statusText])>>
        ELSE <<>>,
     completion |->
        IF res.body = InvalidBody THEN Throw(SyntaxError)
                                  ELSE Return(res.body)]

GetIntent(paymentIntentId, res) ==
    Request("GET", <<"payment_intents", paymentIntentId>>, Undefined, res)

\* initiatePayment: one POST checkout_sessions for the cart's total, then the
\* destructuring of data.attributes (a TypeError where there is no data)
initiatePayment(cart, res) ==
    LET f   == fetchPaymongo(res)
        req == Request("POST", <<"checkout_sessions">>,
                       [currency |-> PHP_upper, amount |-> cart.total], res)
    IN  IF f.completion.kind = "throw"
        THEN Run(<<req>>, f.built, f.completion)
        ELSE LET data == f.completion.value IN
             IF data.kind # "checkout"
             THEN Run(<<req>>, f.built, Throw(TypeError))
             ELSE Run(<<req>>, f.built,
                      Return([kind |-> "session",
                              session_data |->
                                [checkout_url    |-> data.checkout_url,
                                 paymentIntentId |-> data.paymentIntentId,
                                 paymentStatus   |-> data.paymentStatus]]))

isValidAmount_always(amount, total) == TRUE

isValidAmount(amount, total) == amount = total

isValidCurrency(currencyCode, currency) == currencyCode = toLowerCase(currency)

\* authorizePayment: the only explicit return is the AUTHORIZED one; every
\* other path falls off the end of the function
authorizePayment(paymentSessionData, cart, res) ==
    LET f   == fetchPaymongo(res)
        req == GetIntent(paymentSessionData.paymentIntentId, res)
    IN  IF f.completion.kind = "throw"
        THEN Run(<<req>>, f.built, f.completion)
        ELSE LET data == f.completion.value IN
             IF data.kind # "intent"
             THEN Run(<<req>>, f.built, Throw(TypeError))
             ELSE IF /\ data.status = "succeeded"
                     /\ isValidAmount(data.amount, cart.total)
                     /\ isValidCurrency(cart.currencyCode, data.currency)
                  THEN Run(<<req>>, f.built,
                           Return([kind   |-> "authorization",
                                   status |-> PaymentSessionStatus.AUTHORIZED,
                                   data   |-> [paymentIntentId |-> data.id,
                                               paymentStatus |-> data.status]]))
                  ELSE Run(<<req>>, f.built, Return(Undefined))

intentSessionStatus_processingIsError(status) ==
    IF status = "succeeded" THEN PaymentSessionStatus.AUTHORIZED
    ELSE IF status = "awaiting_next_action" THEN PaymentSessionStatus.PENDING
    ELSE IF status = "awaiting_payment_method" THEN PaymentSessionStatus.PENDING
    ELSE PaymentSessionStatus.ERROR

\* the chain of status tests that ends getPaymentStatus
intentSessionStatus(status) ==
    IF status = "succeeded" THEN PaymentSessionStatus.AUTHORIZED
    ELSE IF status = "awaiting_next_action" THEN PaymentSessionStatus.PENDING
    ELSE IF status = "awaiting_payment_method" THEN PaymentSessionStatus.PENDING
    ELSE IF status = "processing" THEN PaymentSessionStatus.PENDING
    ELSE PaymentSessionStatus.ERROR

Status(s) == [kind |-> "status", status |-> s]

getPaymentStatus(paymentSessionData, res) ==
    LET f   == fetchPaymongo(res)
        req == GetIntent(paymentSessionData.paymentIntentId, res)
    IN  IF f.completion.kind = "throw"
        THEN Run(<<req>>, f.built, f.completion)
        ELSE LET data == f.completion.value IN
             IF data = NullBody
             THEN Run(<<req>>, f.built,
                      Return(Status(PaymentSessionStatus.ERROR)))
             ELSE IF data.kind # "intent"
             THEN Run(<<req>>, f.built, Throw(TypeError))
             ELSE Run(<<req>>, f.built,
                      Return(Status(intentSessionStatus(data.status))))

refundPayment_noop(paymentSessionData, refundAmount) ==
    Run(<<>>, <<>>, Return(paymentSessionData))

refundPayment(paymentSessionData, refundAmount) ==
    Run(<<>>, <<>>,
        Throw(Error("Error", "Method not implemented. refundPayment")))

\* retrievePayment: paymentIntentData.data is undefined on a body without
\* data, and reading it off null is a TypeError
retrievePayment(paymentSessionData, res) ==
    LET f   == fetchPaymongo(res)
        req == GetIntent(paymentSessionData.paymentIntentId, res)
    IN  IF f.completion.kind = "throw"
        THEN Run(<<req>>, f.built, f.completion)
        ELSE LET data == f.completion.value IN
             IF data = NullBody
             THEN Run(<<req>>, f.built, Throw(TypeError))
             ELSE Run(<<req>>, f.built,
                      Return([kind |-> "retrieved",
                              session |-> paymentSessionData,
                              paymongoData |->
                                IF data.kind = "intent" THEN data
                                                        ELSE Undefined]))

needsNewCheckout_always(status) == TRUE

\* the guard of updatePayment
needsNewCheckout(status) == status # "succeeded"

updatePayment(paymentSessionData, cart, getRes, postRes) ==
    LET f   == fetchPaymongo(getRes)
        req == GetIntent(paymentSessionData.paymentIntentId, getRes)
    IN  IF f.completion.kind = "throw"
        THEN Run(<<req>>, f.built, f.completion)
        ELSE LET data == f.completion.value IN
             IF data.kind # "intent"
             THEN Run(<<req>>, f.built, Throw(TypeError))
             ELSE IF needsNewCheckout(data.status)
                  THEN LET i == initiatePayment(cart, postRes) IN
                       Run(<<req>> \o i.requests, f.built \o i.built,
                           i.outcome)
                  ELSE Run(<<req>>, f.built, Return(Undefined))

updatePaymentData(sessionId, data) == Run(<<>>, <<>>, Return(data))

capturePayment(paymentSessionData) ==
    Run(<<>>, <<>>, Return(paymentSessionData))

cancelPayment(paymentSessionData) ==
    Run(<<>>, <<>>, Return(paymentSessionData))

deletePayment(paymentSessionData) ==
    Run(<<>>, <<>>, Return(paymentSessionData))

(***************************************************************************)
(* One action per lifecycle call of the payment adapter.                   *)
(***************************************************************************)
InitiatePayment ==
    \E cart \in Carts, res \in CheckoutResponses :
        LET run == initiatePayment(cart, res) IN
        /\ op' = "initiatePayment"
        /\ input' = [sessionData |-> NoSession, cart |-> cart]
        /\ requests' = run.requests
        /\ built' = run.built
        /\ outcome' = run.outcome
        /\ UNCHANGED fileVars

AuthorizePayment ==
    \E s \in SessionDatas, cart \in Carts :
        \E res \in IntentResponses(s.paymentIntentId) :
            LET run == authorizePayment(s, cart, res) IN
            /\ op' = "authorizePayment"
            /\ input' = [sessionData |-> s, cart |-> cart]
            /\ requests' = run.requests
            /\ built' = run.built
            /\ outcome' = run.outcome
            /\ UNCHANGED fileVars

GetPaymentStatus ==
    \E s \in SessionDatas :
        \E res \in IntentResponses(s.paymentIntentId) :
            LET run == getPaymentStatus(s, res) IN
            /\ op' = "getPaymentStatus"
            /\ input' = [sessionData |-> s, cart |-> NoCart]
            /\ requests' = run.requests
            /\ built' = run.built
            /\ outcome' = run.outcome
            /\ UNCHANGED fileVars

RefundPayment ==
    \E s \in SessionDatas, refundAmount \in Amounts :
        LET run == refundPayment(s, refundAmount) IN
        /\ op' = "refundPayment"
        /\ input' = [sessionData |-> s, cart |-> NoCart]
        /\ requests' = run.requests
        /\ built' = run.built
        /\ outcome' = run.outcome
        /\ UNCHANGED fileVars

RetrievePayment ==
    \E s \in SessionDatas :
        \E res \in IntentResponses(s.paymentIntentId) :
            LET run == retrievePayment(s, res) IN
            /\ op' = "retrievePayment"
            /\ input' = [sessionData |-> s, cart |-> NoCart]
            /\ requests' = run.requests
            /\ built' = run.built
            /\ outcome' = run.outcome
            /\ UNCHANGED fileVars

UpdatePayment ==
    \E s \in SessionDatas, cart \in Carts, postRes \in CheckoutResponses :
        \E getRes \in IntentResponses(s.paymentIntentId) :
            LET run == updatePayment(s, cart, getRes, postRes) IN
            /\ op' = "updatePayment"
            /\ input' = [sessionData |-> s, cart |-> cart]
            /\ requests' = run.requests
            /\ built' = run.built
            /\ outcome' = run.outcome
            /\ UNCHANGED fileVars

UpdatePaymentData ==
    \E s \in SessionDatas :
        LET run == updatePaymentData(s.paymentIntentId, s) IN
        /\ op' = "updatePaymentData"
        /\ input' = [sessionData |-> s, cart |-> NoCart]
        /\ requests' = run.requests
        /\ built' = run.built
        /\ outcome' = run.outcome
        /\ UNCHANGED fileVars

CapturePayment ==
    \E s \in SessionDatas :
        LET run == capturePayment(s) IN
        /\ op' = "capturePayment"
        /\ input' = [sessionData |-> s, cart |-> NoCart]
        /\ requests' = run.requests
        /\ built' = run.built
        /\ outcome' = run.outcome
        /\ UNCHANGED fileVars

CancelPayment ==
    \E s \in SessionDatas :
        LET run == cancelPayment(s) IN
        /\ op' = "cancelPayment"
        /\ input' = [sessionData |-> s, cart |-> NoCart]
        /\ requests' = run.requests
        /\ built' = run.built
        /\ outcome' = run.outcome
        /\ UNCHANGED fileVars

DeletePayment ==
    \E s \in SessionDatas :
        LET run == deletePayment(s) IN
        /\ op' = "deletePayment"
        /\ input' = [sessionData |-> s, cart |-> NoCart]
        /\ requests' = run.requests
        /\ built' = run.built
        /\ outcome' = run.outcome
        /\ UNCHANGED fileVars

(***************************************************************************)
(* SupabaseFIleService.  An object path is <dir>/<uuid>.<ext>; the bucket  *)
(* is the set of paths that hold an object.  The storage client never      *)
(* overwrites (upload is called without upsert), so an object, once        *)
(* stored, keeps its content until it is removed.                          *)
(***************************************************************************)
\* the UUID written into delete(): 34ecd528-0377-4dfa-b3f4-1f3aa9018b8a
HardcodedUUID == 1
UUIDs == 1..MaxUUID

\* originalname of an uploaded file, split at its dots
OriginalNames == {<<"photo", "jpg">>, <<"README">>}

\* originalname.split('.').pop()
extension(originalname) == originalname[Len(originalname)]

Path(dir, uuid, ext) == [dir |-> dir, uuid |-> uuid, ext |-> ext]

Paths ==
    {Path(d, u, extension(n)) :
        d \in {"assets", "private"}, u \in UUIDs, n \in OriginalNames}
NoPath == [kind |-> "none"]

signedUrlExpiration == 120

\* storage.from(bucket).upload(path, ...): {data, error}; a path that already
\* holds an object is refused, and the backend may fail for its own reasons
storageUpload(objects, path, backendFails) ==
    IF backendFails \/ path \in objects
    THEN [objects |-> objects, data |-> Undefined, error |-> TRUE]
    ELSE [objects |-> objects \cup {path}, data |-> [path |-> path],
          error |-> FALSE]

\* storage.from(bucket).remove(paths): paths that hold nothing are skipped
storageRemove(objects, paths, backendFails) ==
    IF backendFails
    THEN [objects |-> objects, data |-> Undefined, error |-> TRUE]
    ELSE [objects |-> objects \ paths, data |-> objects \cap paths,
          error |-> FALSE]

\* storage.from(bucket).createSignedUrl(path, expiresIn)
storageCreateSignedUrl(objects, path, expiresIn, backendFails) ==
    IF backendFails \/ path \notin objects
    THEN [data |-> Undefined, error |-> TRUE]
    ELSE [data |-> [signedUrl |-> [path |-> path, expiresIn |-> expiresIn]],
          error |-> FALSE]

\* storage.from(bucket).download(path)
storageDownload(objects, path, backendFails) ==
    IF backendFails \/ path \notin objects
    THEN [data |-> Undefined, error |-> TRUE]
    ELSE [data |-> [stream |-> path], error |-> FALSE]

FileRun(objects, out) == [objects |-> objects, outcome |-> out]

upload(objects, originalname, uuid, backendFails) ==
    LET r == storageUpload(objects,
                           Path("assets", uuid, extension(originalname)),
                           backendFails)
    IN  IF r.error
        THEN FileRun(r.objects, Throw(Error("Error", "Error uploading file")))
        ELSE FileRun(r.objects,
                     Return([key |-> r.data.path,
                             url |-> <<"storageUrl", "bucket", r.data.path>>]))

uploadProtected(objects, originalname, uuid, uploadFails, signFails) ==
    LET r == storageUpload(objects,
                           Path("private", uuid, extension(originalname)),
                           uploadFails)
    IN  IF r.error
        THEN FileRun(r.objects, Throw(Error("Error", "Error uploading file")))
        ELSE LET u == storageCreateSignedUrl(r.objects, r.data.path,
                                             signedUrlExpiration, signFails)
             IN  IF u.error
                 THEN FileRun(r.objects,
                              Throw(Error("Error", "Error getting presigned url")))
                 ELSE FileRun(r.objects,
                              Return([key |-> r.data.path,
                                      url |-> u.data.signedUrl]))

\* the paths delete() hands to remove(): one literal, whatever fileData is
removedPaths(fileData) == {Path("assets", HardcodedUUID, "jpg")}

delete(objects, fileData, backendFails) ==
    LET r == storageRemove(objects, removedPaths(fileData), backendFails)
    IN  IF r.error
        THEN FileRun(r.objects, Throw(Error("Error", "Error deleting file")))
        ELSE FileRun(r.objects, Return(Undefined))

getDownloadStream(objects, fileData, backendFails) ==
    LET r == storageDownload(objects, fileData.fileKey, backendFails)
    IN  IF r.error
        THEN FileRun(objects,
                     Throw(Error("Error", "Error getting download stream")))
        ELSE FileRun(objects, Return(r.data))

getPresignedDownloadUrl(objects, fileData, backendFails) ==
    LET r == storageCreateSignedUrl(objects, fileData.fileKey,
                                    signedUrlExpiration, backendFails)
    IN  IF r.error
        THEN FileRun(objects,
                     Throw(Error("Error", "Error getting presigned url")))
        ELSE FileRun(objects, Return(r.data.signedUrl))

(***************************************************************************)
(* One action per call of the file adapter.                                *)
(***************************************************************************)
Upload ==
    \E n \in OriginalNames, u \in UUIDs, fails \in BOOLEAN :
        LET run == upload(bucket, n, u, fails) IN
        /\ fileOp' = "upload"
        /\ fileArg' = NoPath
        /\ bucket' = run.objects
        /\ fileOutcome' = run.outcome
        /\ UNCHANGED payVars

UploadProtected ==
    \E n \in OriginalNames, u \in UUIDs :
      \E fails \in BOOLEAN, signFails \in BOOLEAN :
        LET run == uploadProtected(bucket, n, u, fails, signFails) IN
        /\ fileOp' = "uploadProtected"
        /\ fileArg' = NoPath
        /\ bucket' = run.objects
        /\ fileOutcome' = run.outcome
        /\ UNCHANGED payVars

Delete ==
    \E path \in Paths, fails \in BOOLEAN :
        LET run == delete(bucket, [fileKey |-> path], fails) IN
        /\ fileOp' = "delete"
        /\ fileArg' = path
        /\ bucket' = run.objects
        /\ fileOutcome' = run.outcome
        /\ UNCHANGED payVars

GetDownloadStream ==
    \E path \in Paths, fails \in BOOLEAN :
        LET run == getDownloadStream(bucket, [fileKey |-> path], fails) IN
        /\ fileOp' = "getDownloadStream"
        /\ fileArg' = path
        /\ bucket' = run.objects
        /\ fileOutcome' = run.outcome
        /\ UNCHANGED payVars

GetPresignedDownloadUrl ==
    \E path \in Paths, fails \in BOOLEAN :
        LET run == getPresignedDownloadUrl(bucket, [fileKey |-> path], fails) IN
        /\ fileOp' = "getPresignedDownloadUrl"
        /\ fileArg' = path
        /\ bucket' = run.objects
        /\ fileOutcome' = run.outcome
        /\ UNCHANGED payVars

(***************************************************************************)
(* Specifications.  The adapters keep nothing between calls, so the calls  *)
(* of the payment adapter are explored in two groups and those of the file *)
(* adapter in a third.                                                     *)
(***************************************************************************)
Init ==
    /\ op = "none"
    /\ input = [sessionData |-> NoSession, cart |-> NoCart]
    /\ requests = <<>>
    /\ built = <<>>
    /\ outcome = Return(Undefined)
    /\ bucket = {}
    /\ fileOp = "none"
    /\ fileArg = NoPath
    /\ fileOutcome = Return(Undefined)

\* the calls that read a payment intent or pass session data through
Next ==
    \/ AuthorizePayment
    \/ GetPaymentStatus
    \/ RefundPayment
    \/ RetrievePayment
    \/ UpdatePaymentData
    \/ CapturePayment
    \/ CancelPayment
    \/ DeletePayment

Spec == Init /\ [][Next]_vars

\* the calls that create a checkout session
CheckoutNext ==
    \/ InitiatePayment
    \/ UpdatePayment

CheckoutSpec == Init /\ [][CheckoutNext]_vars

FileNext ==
    \/ Upload
    \/ UploadProtected
    \/ Delete
    \/ GetDownloadStream
    \/ GetPresignedDownloadUrl

FileSpec == Init /\ [][FileNext]_vars

(***************************************************************************)
(* Vocabulary of the properties.                                           *)
(***************************************************************************)
\* the payment intent (or other body) the call's first request was answered with
Fetched == requests[1].response.body

FetchedIntent == Len(requests) >= 1 /\ Fetched.kind = "intent"

PendingStatuses ==
    {"awaiting_next_action", "awaiting_payment_method", "processing"}

CasePairs ==
    {<<"P", "p">>, <<"H", "h">>, <<"U", "u">>, <<"S", "s">>, <<"D", "d">>}

LowerLetter(c) ==
    IF \E p \in CasePairs : p[1] = c
    THEN (CHOOSE p \in CasePairs : p[1] = c)[2]
    ELSE c

LowerCased(str) == [i \in DOMAIN str |-> LowerLetter(str[i])]

SameIgnoringCase(a, b) == LowerCased(a) = LowerCased(b)

\* the call returned an object or enum value whose session status is st
ReturnedStatus(st) ==
    /\ outcome.kind = "return"
    /\ outcome.value.kind \in {"authorization", "status"}
    /\ outcome.value.status = st

AmountAndCurrencyMatch ==
    /\ Fetched.amount = input.cart.total
    /\ LowerCased(Fetched.currency) = input.cart.currencyCode

(***************************************************************************)
(* C1: authorizePayment returns AUTHORIZED only if the fetched intent's    *)
(* status is exactly "succeeded", its amount equals the cart total and its *)
(* lower-cased currency equals the cart's currency code; a succeeded       *)
(* intent whose amount or currency differs is never AUTHORIZED.            *)
(***************************************************************************)
AuthorizedOnlyOnExactMatch ==
    (op = "authorizePayment" /\ ReturnedStatus(PaymentSessionStatus.AUTHORIZED))
        => /\ FetchedIntent
           /\ Fetched.status = "succeeded"
           /\ AmountAndCurrencyMatch

AuthorizedUpperCaseCurrency ==
    /\ op = "authorizePayment"
    /\ ReturnedStatus(PaymentSessionStatus.AUTHORIZED)
    /\ Fetched.currency = PHP_upper
    /\ input.cart.currencyCode = php_lower

(***************************************************************************)
(* C2: for a succeeded intent whose amount equals the cart total and whose *)
(* currency equals the cart's currency code up to letter case,             *)
(* authorizePayment returns AUTHORIZED together with the intent's id and   *)
(* status.                                                                 *)
(***************************************************************************)
MatchingSucceededIsAuthorized ==
    (/\ op = "authorizePayment"
     /\ FetchedIntent
     /\ Fetched.status = "succeeded"
     /\ Fetched.amount = input.cart.total
     /\ SameIgnoringCase(Fetched.currency, input.cart.currencyCode))
        => outcome = Return([kind   |-> "authorization",
                             status |-> PaymentSessionStatus.AUTHORIZED,
                             data   |-> [paymentIntentId |-> Fetched.id,
                                         paymentStatus   |-> "succeeded"]])

MatchingSucceededSeen ==
    /\ op = "authorizePayment"
    /\ FetchedIntent
    /\ Fetched.status = "succeeded"
    /\ Fetched.amount = input.cart.total
    /\ Fetched.currency = USD_upper
    /\ input.cart.currencyCode = usd_lower
    /\ outcome.kind = "return"

(***************************************************************************)
(* C3: when the intent has succeeded but its amount or currency differs    *)
(* from the cart's, authorizePayment returns an explicit outcome (ERROR or *)
(* a mismatch outcome), never no value at all.                             *)
(***************************************************************************)
MismatchIsExplicit ==
    (/\ op = "authorizePayment"
     /\ FetchedIntent
     /\ Fetched.status = "succeeded"
     /\ ~AmountAndCurrencyMatch)
        => /\ outcome.kind = "return"
           /\ outcome.value # Undefined

(***************************************************************************)
(* C4: for an intent that is awaiting_next_action, awaiting_payment_method *)
(* or processing, authorizePayment returns PENDING whatever the amounts    *)
(* and currencies are.                                                     *)
(***************************************************************************)
PendingIsPending ==
    (/\ op = "authorizePayment"
     /\ FetchedIntent
     /\ Fetched.status \in PendingStatuses)
        => ReturnedStatus(PaymentSessionStatus.PENDING)

(***************************************************************************)
(* C5: for a status outside succeeded and the three pending statuses, and  *)
(* for an empty snapshot, both authorizePayment and getPaymentStatus       *)
(* result in ERROR.                                                        *)
(***************************************************************************)
UnrecognizedIsError ==
    (/\ op \in {"authorizePayment", "getPaymentStatus"}
     /\ Len(requests) >= 1
     /\ \/ Fetched = NullBody
        \/ /\ Fetched.kind = "intent"
           /\ Fetched.status \notin PendingStatuses \cup {"succeeded"})
        => ReturnedStatus(PaymentSessionStatus.ERROR)

(***************************************************************************)
(* C6: getPaymentStatus is a function of the fetched status alone:         *)
(* succeeded gives AUTHORIZED, the three pending statuses give PENDING,    *)
(* every other status gives ERROR, whatever the amount and currency.       *)
(***************************************************************************)
StatusOnlyMapping ==
    (op = "getPaymentStatus" /\ FetchedIntent)
        => outcome =
             Return([kind |-> "status",
                     status |->
                       IF Fetched.status = "succeeded"
                       THEN PaymentSessionStatus.AUTHORIZED
                       ELSE IF Fetched.status \in PendingStatuses
                       THEN PaymentSessionStatus.PENDING
                       ELSE PaymentSessionStatus.ERROR])

ProcessingPolled ==
    /\ op = "getPaymentStatus"
    /\ FetchedIntent
    /\ Fetched.status = "processing"
    /\ ReturnedStatus(PaymentSessionStatus.PENDING)

(***************************************************************************)
(* C7: when the vendor answers a request with a non-success HTTP status,   *)
(* the call reports a structured error carrying the status code and the    *)
(* status text, and nothing derived from the failed response's body.       *)
(***************************************************************************)
DecimalCode(code) == IF code = 401 THEN "401" ELSE "500"

FailureIsReported ==
    \A i \in 1..Len(requests) :
        ~requests[i].response.ok
            => LET e == IF outcome.kind = "return" THEN outcome.value
                                                   ELSE outcome.error
               IN  /\ {"code", "detail"} \subseteq DOMAIN e
                   /\ e.code = DecimalCode(requests[i].response.status)
                   /\ e.detail = requests[i].response.statusText

(***************************************************************************)
(* C8, as claimed: refundPayment and capturePayment both fail with a "not  *)
(* implemented" error and issue no vendor request.                         *)
(***************************************************************************)
RefundAndCaptureNotImplemented ==
    op \in {"refundPayment", "capturePayment"}
        => /\ requests = <<>>
           /\ outcome.kind = "throw"

(***************************************************************************)
(* C8, amended: refundPayment fails with "Method not implemented" for      *)
(* every session data and amount and issues no vendor request;             *)
(* capturePayment issues no vendor request either and returns the session  *)
(* data it was given.                                                      *)
(***************************************************************************)
RefundFailsCaptureReturns ==
    /\ op = "refundPayment"
         => /\ requests = <<>>
            /\ outcome.kind = "throw"
            /\ outcome.error.message = "Method not implemented. refundPayment"
    /\ op = "capturePayment"
         => /\ requests = <<>>
            /\ outcome = Return(input.sessionData)

RefundAttempted ==
    /\ op = "refundPayment"
    /\ input.sessionData \in SessionDatas
    /\ outcome.kind = "throw"

(***************************************************************************)
(* C9: a delete(fileData) that succeeds removes exactly the object stored  *)
(* under fileData.fileKey: that path holds nothing afterwards and every    *)
(* other path is as before.                                                *)
(***************************************************************************)
DeleteRemovesGivenKey ==
    [][(fileOp' = "delete" /\ fileOutcome'.kind = "return")
          => bucket' = bucket \ {fileArg'}]_vars

(***************************************************************************)
(* C10: updatePayment creates a checkout session exactly when the fetched  *)
(* status is not "succeeded".  For a succeeded intent it issues the GET    *)
(* alone and returns nothing; otherwise it issues the GET and then one     *)
(* POST checkout_sessions and completes as initiatePayment does, with the  *)
(* new checkout_url, paymentIntentId and paymentStatus.                    *)
(***************************************************************************)
IsGetOfSessionIntent(r) ==
    /\ r.method = "GET"
    /\ r.path = <<"payment_intents", input.sessionData.paymentIntentId>>

UpdateCreatesIffNotSucceeded ==
    (op = "updatePayment" /\ FetchedIntent)
        => /\ IsGetOfSessionIntent(requests[1])
           /\ IF Fetched.status = "succeeded"
              THEN /\ Len(requests) = 1
                   /\ outcome = Return(Undefined)
              ELSE /\ Len(requests) = 2
                   /\ requests[2].method = "POST"
                   /\ requests[2].path = <<"checkout_sessions">>
                   /\ outcome = initiatePayment(input.cart,
                                                requests[2].response).outcome
                   /\ requests[2].response.body.kind = "checkout"
                        => /\ outcome.kind = "return"
                           /\ outcome.value.session_data =
                                [checkout_url |->
                                    requests[2].response.body.checkout_url,
                                 paymentIntentId |->
                                    requests[2].response.body.paymentIntentId,
                                 paymentStatus |->
                                    requests[2].response.body.paymentStatus]

UpdateOfSucceededSeen ==
    /\ op = "updatePayment"
    /\ FetchedIntent
    /\ Fetched.status = "succeeded"
    /\ Len(requests) = 1

====
